---- MODULE Spec2Model ----
(***************************************************************************)
(* Model of PowerTrading_AgAI.py: one Streamlit script run in which the    *)
(* "Initialize Trading Agent" button was pressed.  The run checks the API  *)
(* key, then calls market_data_agent, research_agent and trader_agent in   *)
(* sequence, merging each result into the `state` dict, and finally        *)
(* renders the report (price metric, colour-coded signal).                 *)
(*                                                                         *)
(* Text is modelled as TLA+ strings, character by character.  Closing      *)
(* prices are integers counted in hundredths of a rupee.                   *)
(***************************************************************************)
EXTENDS Integers, Sequences, FiniteSets, TLC

VARIABLES
    pc,             \* position of the script run
    api_key,        \* sidebar text input
    company_name,   \* "Company Name" text input
    ticker_symbol,  \* "Ticker (NSE)" text input
    state,          \* the AgentState dict (a function from keys to text)
    hist,           \* what ticker.history(period="5d") gave
    lookups,        \* symbols sent to the market-data provider, in order
    requests,       \* message lists sent to chat.completions.create, in order
    replies,        \* what chat.completions.create gave each time, in order
    ui,             \* what the page has shown, in order
    started,        \* pipeline steps begun, in order
    exc,            \* the uncaught exception that ended the run, or "none"
    report          \* the final report display

vars == <<pc, api_key, company_name, ticker_symbol, state, hist, lookups,
          requests, replies, ui, started, exc, report>>

-----------------------------------------------------------------------------
(* Bounds and input domains *)

\* Rows asked of the provider: period="5d".
Period == 5

\* Largest number of vocabulary pieces in a generated recommendation text.
MaxTokens == 4

\* Number of one-rupee steps above 99.00 among the closing prices.
CloseSteps == 4

\* Closing prices, in hundredths of a rupee.
Closes == {0, 3200, 3300} \cup {9900 + 100 * k : k \in 0..CloseSteps}

ApiKeys == {"", "pplx-demo"}
CompanyNames == {"Tata Power", "NTPC"}
TickerSymbols == {"AAA.NS", "BAD.TICKER"}

\* Completion texts the language model may return for the news query.
NewsTexts == {"- Coal supply stable", "- Heatwave. Supply crunch"}

\* Completion texts the language model may return for the decision prompt.
RecTexts == {"**CHARGE** low price. Stable supply", "**DISCHARGE** due to heatwave",
             "**Hold** for now", "Sell into the peak"}

\* Pieces from which longer recommendation texts are put together.
Vocabulary == <<"**", "DISCHARGE", "charge", "Sell", "buy", "HOLD", " due to heatwave">>

\* The 5-day scenario 100, 102, 99, 101, 103.
ScenarioCloses == <<10000, 10200, 9900, 10100, 10300>>

RECURSIVE SeqsUpTo(_, _)
SeqsUpTo(S, n) ==
    IF n = 0 THEN {<< >>}
    ELSE LET shorter == SeqsUpTo(S, n - 1)
         IN  shorter \cup {Append(q, x) : q \in {r \in shorter : Len(r) = n - 1}, x \in S}

RECURSIVE Concat(_)
Concat(pieces) ==
    IF pieces = << >> THEN "" ELSE Head(pieces) \o Concat(Tail(pieces))

\* response.choices[0].message.content, or the exception of the request
Completed(text) == [ok |-> TRUE, text |-> text]
Raised == [ok |-> FALSE, text |-> ""]

NoHist == [st |-> "none", closes |-> << >>]
RaisedHist == [st |-> "raise", closes |-> << >>]
Rows(closes) == [st |-> "rows", closes |-> closes]

\* Every outcome of the history call within the bounds.
AllHists == {RaisedHist} \cup {Rows(c) : c \in SeqsUpTo(Closes, Period)}

\* The outcomes the pipeline run is checked with.
PipelineHists ==
    {RaisedHist, Rows(<< >>), Rows(ScenarioCloses), Rows(<<0, 10000>>),
     Rows(<<10000>>), Rows(<<10300, 9900>>)}

\* Every recommendation text within the bounds.
AllRecTexts ==
    RecTexts \cup
    {Concat([i \in 1..Len(ix) |-> Vocabulary[ix[i]]]) :
        ix \in SeqsUpTo(1..Len(Vocabulary), MaxTokens)}

-----------------------------------------------------------------------------
(* Text helpers: what the Python string operations do *)

LowerLetters == "abcdefghijklmnopqrstuvwxyz"
UpperLetters == "ABCDEFGHIJKLMNOPQRSTUVWXYZ"
Digits == "0123456789"

CharAt(s, i) == SubSeq(s, i, i)

\* str.upper() of one character
UpChar(c) ==
    IF \E i \in 1..Len(LowerLetters) : CharAt(LowerLetters, i) = c
    THEN CharAt(UpperLetters, CHOOSE i \in 1..Len(LowerLetters) : CharAt(LowerLetters, i) = c)
    ELSE c

\* str.upper(): every character upper-cased, in place
RECURSIVE Upper(_)
Upper(s) ==
    IF Len(s) <= 1 THEN UpChar(s)
    ELSE LET half == Len(s) \div 2
         IN  Upper(SubSeq(s, 1, half)) \o Upper(SubSeq(s, half + 1, Len(s)))

\* k in s: k is found at some offset of s
In(k, s) == \E at \in 0..(Len(s) - Len(k)) : SubSeq(s, at + 1, at + Len(k)) = k

\* s.split(sep): the pieces between the occurrences of sep
RECURSIVE SplitFrom(_, _, _)
SplitFrom(s, sep, cur) ==
    IF Len(s) < Len(sep) THEN <<cur \o s>>
    ELSE IF SubSeq(s, 1, Len(sep)) = sep
         THEN <<cur>> \o SplitFrom(SubSeq(s, Len(sep) + 1, Len(s)), sep, "")
         ELSE SplitFrom(Tail(s), sep, cur \o Head(s))

Split(s, sep) == SplitFrom(s, sep, "")

Digit(d) == CharAt(Digits, d + 1)

RECURSIVE NatStr(_)
NatStr(n) == IF n < 10 THEN Digit(n) ELSE NatStr(n \div 10) \o Digit(n % 10)

\* f"{x:.2f}" of a non-negative amount of h hundredths
Fixed2(h) == NatStr(h \div 100) \o "." \o Digit((h \div 10) % 10) \o Digit(h % 10)

Abs(n) == IF n < 0 THEN -n ELSE n

-----------------------------------------------------------------------------
(* The agents *)

Sentinel == "Error fetching data (Check Ticker Symbol)"

NoState == [k \in {} |-> ""]

\* dict.update: the keys of r are set, every other key keeps its value
Update_replace(d, r) == r

Update(d, r) ==
    [k \in DOMAIN d \cup DOMAIN r |-> IF k \in DOMAIN r THEN r[k] ELSE d[k]]

\* f"{change:.2f}" where change = ((current_price - start_price) / start_price) * 100
\* on numpy float64 values.  A zero start_price gives inf or nan (numpy warns and
\* does not raise).  When the exact quotient lies halfway between two printed
\* values, the binary result may fall on either side, so both are possible.
ChangeStrs_overCurrent(current_price, start_price) ==
    IF current_price = 0 THEN {"nan"}
    ELSE LET num == Abs(current_price - start_price) * 10000
             q == num \div current_price
         IN  {(IF current_price < start_price THEN "-" ELSE "") \o Fixed2(q)}

ChangeStrs(current_price, start_price) ==
    IF start_price = 0
    THEN IF current_price > 0 THEN {"inf"}
         ELSE IF current_price < 0 THEN {"-inf"} ELSE {"nan"}
    ELSE LET num == Abs(current_price - start_price) * 10000
             den == Abs(start_price)
             q == num \div den
             r == num % den
             neg == (current_price < start_price) # (start_price < 0)
             mags == IF 2 * r < den THEN {q}
                     ELSE IF 2 * r > den THEN {q + 1} ELSE {q, q + 1}
         IN  {(IF neg THEN "-" ELSE "") \o Fixed2(m) : m \in mags}

\* market_data_agent from the history call on: the dicts it may return.
\* iloc[-1] on no rows and a raising history call are caught by the bare except.
market_data_agent(h) ==
    IF h.st # "rows" \/ Len(h.closes) = 0
    THEN {[price_data |-> Sentinel]}
    ELSE LET current_price == h.closes[Len(h.closes)]
             start_price == h.closes[1]
         IN  {[price_data |-> "Price: ₹" \o Fixed2(current_price)
                               \o " | 5-Day Change: " \o c \o "%"] :
                 c \in ChangeStrs(current_price, start_price)}

ResearchQuery(s) ==
    "Latest news affecting " \o s["company_name"]
    \o " share price in India. Focus on coal supply, government energy policy, and renewable projects. Be concise."

ResearchMessages(s) ==
    << [role |-> "system",
        content |-> "You are a senior energy market researcher. Summarize key drivers in 3 bullet points."],
       [role |-> "user", content |-> ResearchQuery(s)] >>

TraderPrompt_noMarketData(s) ==
    "\n    You are an AI Operator for a Grid-Connected Battery Storage System.\n    \n"
    \o "    ASSET: " \o s["company_name"] \o "\n"
    \o "    NEWS INTEL: " \o s["news_summary"] \o "\n"
    \o "    Task: Decide CHARGE, DISCHARGE, or HOLD.\n    "

TraderPrompt(s) ==
    "\n    You are an AI Operator for a Grid-Connected Battery Storage System.\n    \n"
    \o "    ASSET: " \o s["company_name"] \o "\n"
    \o "    MARKET DATA: " \o s["price_data"] \o "\n"
    \o "    NEWS INTEL: " \o s["news_summary"] \o "\n"
    \o "    \n    DECISION RULES:\n"
    \o "    1. CHARGE: Low price/stable supply.\n"
    \o "    2. DISCHARGE: High price/supply crunch.\n"
    \o "    3. HOLD: Uncertain/Wait for event.\n"
    \o "    \n    Task: Decide CHARGE, DISCHARGE, or HOLD.\n"
    \o "    Start with the decision in BOLD (e.g., **CHARGE**). Then explain in 1 short paragraph.\n    "

TraderMessages(s) == << [role |-> "user", content |-> TraderPrompt(s)] >>

\* if not api_key
MissingKey_never(k) == FALSE

MissingKey(k) == k = ""

-----------------------------------------------------------------------------
(* The report *)

\* state['price_data'].split("₹")[1].split(" ")[0], "N/A" when that raises
PriceMetric(price_data) ==
    LET parts == Split(price_data, "₹")
    IN  IF Len(parts) < 2 THEN "N/A" ELSE "₹" \o Split(parts[2], " ")[1]

\* the colour of the decision
Color_dischargeFirst(rec) ==
    IF In("DISCHARGE", Upper(rec)) \/ In("SELL", Upper(rec)) THEN "red"
    ELSE IF In("CHARGE", Upper(rec)) \/ In("BUY", Upper(rec)) THEN "green"
    ELSE "orange"

Color(rec) ==
    IF In("CHARGE", Upper(rec)) \/ In("BUY", Upper(rec)) THEN "green"
    ELSE IF In("DISCHARGE", Upper(rec)) \/ In("SELL", Upper(rec)) THEN "red"
    ELSE "orange"

NoReport == [asset |-> "", price |-> "", color |-> "none", signal |-> "", news |-> ""]

-----------------------------------------------------------------------------
(* The script run *)

\* A variant that creates the dict with every AgentState field.
InitialState_allFields ==
    [company_symbol |-> ticker_symbol, company_name |-> company_name,
     price_data |-> "", news_summary |-> "", final_recommendation |-> ""]

\* state = {"company_symbol": ticker_symbol, "company_name": company_name}
InitialState == [company_symbol |-> ticker_symbol, company_name |-> company_name]

Init ==
    /\ pc = "run"
    /\ api_key \in ApiKeys
    /\ company_name \in CompanyNames
    /\ ticker_symbol \in TickerSymbols
    /\ state = NoState
    /\ hist = NoHist
    /\ lookups = << >>
    /\ requests = << >>
    /\ replies = << >>
    /\ ui = << >>
    /\ started = << >>
    /\ exc = "none"
    /\ report = NoReport

\* if run_btn: the key check, and on a key the client and the initial state
CheckKey ==
    /\ pc = "run"
    /\ IF MissingKey(api_key)
       THEN /\ ui' = Append(ui, "error: Please enter your API Key in the sidebar!")
            /\ pc' = "stopped"
            /\ state' = state
       ELSE /\ ui' = Append(ui, "status: AI Agents Active...")
            /\ pc' = "s1"
            /\ state' = InitialState
    /\ UNCHANGED <<replies, api_key, company_name, ticker_symbol, hist, lookups, requests,
                   started, exc, report>>

\* Step 1 up to the history call: yf.Ticker(...) stands before the try, so an
\* exception it raises leaves market_data_agent and ends the run.
TickerBuild ==
    /\ pc = "s1"
    /\ started' = Append(started, "DataFetch")
    /\ ui' = Append(ui, "write: Fetching Market Data...")
    /\ \/ /\ pc' = "s1_history"
          /\ lookups' = Append(lookups, state["company_symbol"])
          /\ exc' = exc
       \/ /\ pc' = "crashed"
          /\ exc' = "TickerFailure"
          /\ lookups' = lookups
    /\ UNCHANGED <<replies, api_key, company_name, ticker_symbol, state, hist, requests, report>>

\* ticker.history(period="5d") returns rows or raises
HistoryReply ==
    /\ pc = "s1_history"
    /\ hist' \in PipelineHists
    /\ pc' = "s1_compute"
    /\ UNCHANGED <<replies, api_key, company_name, ticker_symbol, state, lookups, requests,
                   ui, started, exc, report>>

\* the rest of market_data_agent, state.update(data_result), st.success
MarketDataCompute ==
    /\ pc = "s1_compute"
    /\ \E data_result \in market_data_agent(hist) :
          /\ state' = Update(state, data_result)
          /\ ui' = Append(ui, "success: Market Data Acquired: " \o state'["price_data"])
    /\ pc' = "s2"
    /\ UNCHANGED <<replies, api_key, company_name, ticker_symbol, hist, lookups, requests,
                   started, exc, report>>

\* Step 2: research_agent sends its request
ResearchRequest ==
    /\ pc = "s2"
    /\ started' = Append(started, "NewsFetch")
    /\ ui' = Append(ui, "write: running Semantic Search on News (Perplexity)...")
    /\ requests' = Append(requests, ResearchMessages(state))
    /\ pc' = "s2_wait"
    /\ UNCHANGED <<replies, api_key, company_name, ticker_symbol, state, hist, lookups, exc, report>>

\* A variant that asks again when the request fails.
ResearchReply_retry ==
    /\ pc = "s2_wait"
    /\ \/ /\ pc' = "s2"
          /\ replies' = Append(replies, Raised)
          /\ UNCHANGED <<state, ui>>
       \/ \E text \in NewsTexts :
             /\ replies' = Append(replies, Completed(text))
             /\ state' = Update(state, [news_summary |-> text])
             /\ ui' = Append(ui, "info: News Context Indexed.")
             /\ pc' = "s3"
    /\ UNCHANGED <<api_key, company_name, ticker_symbol, hist, lookups, requests,
                   started, exc, report>>

\* A variant that puts a default in place of a failed request.
ResearchReply_default ==
    /\ pc = "s2_wait"
    /\ \/ /\ replies' = Append(replies, Raised)
          /\ state' = Update(state, [news_summary |-> "Error fetching news"])
       \/ \E text \in NewsTexts :
             /\ replies' = Append(replies, Completed(text))
             /\ state' = Update(state, [news_summary |-> text])
    /\ ui' = Append(ui, "info: News Context Indexed.")
    /\ pc' = "s3"
    /\ UNCHANGED <<api_key, company_name, ticker_symbol, hist, lookups, requests,
                   started, exc, report>>

\* the completion request returns a text or raises; state.update(news_result), st.info
ResearchReply ==
    /\ pc = "s2_wait"
    /\ \/ /\ replies' = Append(replies, Raised)
          /\ exc' = "CompletionFailure"
          /\ pc' = "crashed"
          /\ UNCHANGED <<state, ui>>
       \/ \E text \in NewsTexts :
             /\ replies' = Append(replies, Completed(text))
             /\ state' = Update(state, [news_summary |-> text])
             /\ ui' = Append(ui, "info: News Context Indexed.")
             /\ pc' = "s3"
             /\ exc' = exc
    /\ UNCHANGED <<api_key, company_name, ticker_symbol, hist, lookups, requests,
                   started, report>>

\* Step 3: trader_agent sends its request
TraderRequest ==
    /\ pc = "s3"
    /\ started' = Append(started, "Decision")
    /\ ui' = Append(ui, "write: Generating Trading Strategy...")
    /\ requests' = Append(requests, TraderMessages(state))
    /\ pc' = "s3_wait"
    /\ UNCHANGED <<replies, api_key, company_name, ticker_symbol, state, hist, lookups, exc, report>>

\* the completion request returns a text or raises; state.update(trade_result),
\* status.update(label="Analysis Complete!", state="complete")
TraderReply ==
    /\ pc = "s3_wait"
    /\ \/ /\ replies' = Append(replies, Raised)
          /\ exc' = "CompletionFailure"
          /\ pc' = "crashed"
          /\ UNCHANGED <<state, ui, started>>
       \/ \E text \in RecTexts :
             /\ replies' = Append(replies, Completed(text))
             /\ state' = Update(state, [final_recommendation |-> text])
             /\ ui' = Append(ui, "status: Analysis Complete!")
             /\ started' = Append(started, "Done")
             /\ pc' = "Done"
             /\ exc' = exc
    /\ UNCHANGED <<api_key, company_name, ticker_symbol, hist, lookups, requests, report>>

\* the final report display
Report ==
    /\ pc = "Done"
    /\ LET rec == state["final_recommendation"]
       IN  report' = [asset |-> state["company_name"],
                      price |-> PriceMetric(state["price_data"]),
                      color |-> Color(rec),
                      signal |-> Split(rec, ".")[1],
                      news |-> state["news_summary"]]
    /\ pc' = "Reported"
    /\ UNCHANGED <<replies, api_key, company_name, ticker_symbol, state, hist, lookups, requests,
                   ui, started, exc>>

Next ==
    \/ CheckKey
    \/ TickerBuild
    \/ HistoryReply
    \/ MarketDataCompute
    \/ ResearchRequest
    \/ ResearchReply
    \/ TraderRequest
    \/ TraderReply
    \/ Report

Spec == Init /\ [][Next]_vars

-----------------------------------------------------------------------------
(* market_data_agent on every history within the bounds *)

InitPrice ==
    /\ pc = "s1_compute"
    /\ api_key = "pplx-demo"
    /\ company_name = "Tata Power"
    /\ ticker_symbol = "AAA.NS"
    /\ state = InitialState
    /\ hist \in AllHists
    /\ lookups = <<ticker_symbol>>
    /\ requests = << >>
    /\ replies = << >>
    /\ ui = <<"status: AI Agents Active...", "write: Fetching Market Data...">>
    /\ started = <<"DataFetch">>
    /\ exc = "none"
    /\ report = NoReport

NextPrice == MarketDataCompute

SpecPrice == InitPrice /\ [][NextPrice]_vars

-----------------------------------------------------------------------------
(* The report on every recommendation text within the bounds *)

DoneState(rec) ==
    [company_symbol |-> "AAA.NS", company_name |-> "Tata Power",
     price_data |-> "Price: ₹103.00 | 5-Day Change: 3.00%",
     news_summary |-> "- Coal supply stable",
     final_recommendation |-> rec]

InitColor ==
    /\ pc = "Done"
    /\ api_key = "pplx-demo"
    /\ company_name = "Tata Power"
    /\ ticker_symbol = "AAA.NS"
    /\ \E rec \in AllRecTexts : state = DoneState(rec)
    /\ hist = Rows(ScenarioCloses)
    /\ lookups = <<ticker_symbol>>
    /\ requests = <<ResearchMessages(state), TraderMessages(state)>>
    /\ replies = <<Completed(state["news_summary"]),
                   Completed(state["final_recommendation"])>>
    /\ ui = <<"status: AI Agents Active...", "write: Fetching Market Data...",
              "success: Market Data Acquired: " \o state["price_data"],
              "write: running Semantic Search on News (Perplexity)...",
              "info: News Context Indexed.",
              "write: Generating Trading Strategy...",
              "status: Analysis Complete!">>
    /\ started = <<"DataFetch", "NewsFetch", "Decision", "Done">>
    /\ exc = "none"
    /\ report = NoReport

NextColor == Report

SpecColor == InitColor /\ [][NextColor]_vars

-----------------------------------------------------------------------------
(* Properties *)

InputKeys == {"company_symbol", "company_name"}
AllKeys == InputKeys \cup {"price_data", "news_summary", "final_recommendation"}

Has(k) == k \in DOMAIN state

Range(q) == {q[i] : i \in 1..Len(q)}

IsPrefix(p, q) == Len(p) <= Len(q) /\ SubSeq(q, 1, Len(p)) = p

\* the content of the user message of a request
UserContent(messages) == messages[Len(messages)].content

\* C1: the fields of the record appear in the order company_symbol and
\* company_name, price_data, news_summary, final_recommendation: a field is
\* present only if its predecessor is, and only once its own step has begun.
C1_FieldOrder ==
    /\ Has("price_data") => InputKeys \subseteq DOMAIN state /\ "DataFetch" \in Range(started)
    /\ Has("news_summary") => Has("price_data") /\ "NewsFetch" \in Range(started)
    /\ Has("final_recommendation") => Has("news_summary") /\ "Decision" \in Range(started)

C1_Witness ==
    /\ pc = "s3"
    /\ Has("news_summary")
    /\ ~Has("final_recommendation")

\* C2: with an empty API key the run stops at the key check with the error
\* message shown: no history lookup, no completion request, no exception, and
\* no price_data, news_summary or final_recommendation field.
C2_MissingCredential ==
    api_key = "" =>
        /\ pc \in {"run", "stopped"}
        /\ lookups = << >>
        /\ requests = << >>
        /\ exc = "none"
        /\ DOMAIN state \cap {"price_data", "news_summary", "final_recommendation"} = {}
        /\ pc = "stopped" => ui = <<"error: Please enter your API Key in the sidebar!">>

C2_Witness ==
    /\ api_key = ""
    /\ pc = "stopped"
    /\ Len(ui) = 1

\* the history outcomes that count as a failure of step 1
HistoryFailed(h) ==
    \/ h.st = "raise"
    \/ h.st = "rows" /\ Len(h.closes) = 0
    \/ h.st = "rows" /\ Len(h.closes) > 0 /\ h.closes[1] = 0

\* C3: whatever fails in step 1 (building the ticker, the history call, no rows,
\* a zero first close), market_data_agent raises nothing and price_data is the
\* sentinel.
C3_Stage1NeverThrows ==
    /\ exc # "TickerFailure"
    /\ HistoryFailed(hist) /\ Has("price_data") => state["price_data"] = Sentinel

\* C4 as stated: with the sentinel as price_data both later steps run and the
\* sentinel is in the prompt of each of them.
C4_SentinelInBothPrompts ==
    Has("price_data") /\ state["price_data"] = Sentinel =>
        \A i \in 1..Len(requests) : In(Sentinel, UserContent(requests[i]))

\* C4 amended: with the sentinel as price_data the run goes on: the news request
\* is sent, and after a successful news reply the decision request is sent; the
\* sentinel is in the decision prompt, while the news prompt is built from
\* company_name alone and does not carry it.
C4_SentinelInDecisionPrompt ==
    Has("price_data") /\ state["price_data"] = Sentinel =>
        /\ exc # "TickerFailure"
        /\ pc = "s2" => ENABLED ResearchRequest
        /\ pc = "s3" => ENABLED TraderRequest
        /\ pc \in {"s2_wait", "s3"} => Len(requests) = 1
        /\ pc \in {"s3_wait", "Done", "Reported"} => Len(requests) = 2
        /\ Len(requests) >= 1 =>
              /\ ~In(Sentinel, UserContent(requests[1]))
              /\ In(company_name, UserContent(requests[1]))
        /\ Len(requests) >= 2 => In(Sentinel, UserContent(requests[2]))

C4_Witness ==
    /\ Has("price_data")
    /\ state["price_data"] = Sentinel
    /\ pc = "s3_wait"
    /\ Len(requests) = 2

CompletionFailed == \E i \in 1..Len(replies) : ~replies[i].ok

\* C5: a completion request that raises ends the run with the exception
\* uncaught: no default takes the place of the reply, the field of the failing
\* step and every later field stay absent, no later step begins, the run never
\* reaches Done or the report, and nothing further happens in the run.
C5_CompletionFailureFatal ==
    /\ [](CompletionFailed =>
            /\ exc = "CompletionFailure"
            /\ pc = "crashed"
            /\ ~replies[Len(replies)].ok
            /\ Len(replies) = Len(requests)
            /\ started \in {<<"DataFetch", "NewsFetch">>, <<"DataFetch", "NewsFetch", "Decision">>}
            /\ Len(requests) = Len(started) - 1
            /\ ~Has("final_recommendation")
            /\ Len(requests) = 1 => ~Has("news_summary")
            /\ report = NoReport
            /\ \A i \in 1..Len(ui) : ui[i] # "status: Analysis Complete!")
    /\ [][~CompletionFailed]_vars

C5_Witness ==
    /\ CompletionFailed
    /\ Len(replies) = 2
    /\ Has("news_summary")

\* C6: the steps begin in the order DataFetch, NewsFetch, Decision, Done, each
\* at most once and none skipped, each after the one before has set its field;
\* at most two completion requests are sent, the system + user one first and
\* the single user message second.
C6_LinearStages ==
    /\ IsPrefix(started, <<"DataFetch", "NewsFetch", "Decision", "Done">>)
    /\ "NewsFetch" \in Range(started) => Has("price_data")
    /\ "Decision" \in Range(started) => Has("news_summary")
    /\ "Done" \in Range(started) => Has("final_recommendation")
    /\ IsPrefix([i \in 1..Len(requests) |-> Len(requests[i])], <<2, 1>>)
    /\ \A i \in 1..Len(requests) : requests[i][Len(requests[i])].role = "user"
    /\ Len(requests) >= 1 => requests[1][1].role = "system"
    /\ Len(requests) = Cardinality(Range(started) \cap {"NewsFetch", "Decision"})
    /\ Len(lookups) <= 1

C6_Witness ==
    /\ started = <<"DataFetch", "NewsFetch", "Decision", "Done">>
    /\ Len(requests) = 2
    /\ pc = "Done"

DigitValue(c) == CHOOSE d \in 0..9 : Digit(d) = c

RECURSIVE ParseNat(_)
ParseNat(s) ==
    IF s = "" THEN 0
    ELSE 10 * ParseNat(SubSeq(s, 1, Len(s) - 1)) + DigitValue(CharAt(s, Len(s)))

\* the number of hundredths a text such as "103.00" or "-3.88" stands for
ParseFixed2(s) ==
    LET neg == Head(s) = "-"
        body == IF neg THEN Tail(s) ELSE s
        parts == Split(body, ".")
        mag == 100 * ParseNat(parts[1]) + ParseNat(parts[2])
    IN  IF neg THEN -mag ELSE mag

\* C7: for a history of at least 2 closes with a non-zero first close,
\* price_data holds the last close with 2 decimals and a percentage with 2
\* decimals that is (last - first) / first * 100 to within half a hundredth;
\* the closes 100, 102, 99, 101, 103 give 103.00 and 3.00%.
C7_PriceSummary ==
    pc = "s2" /\ hist.st = "rows" /\ Len(hist.closes) >= 2 /\ hist.closes[1] # 0 =>
        LET first == hist.closes[1]
            last == hist.closes[Len(hist.closes)]
            text == state["price_data"]
            price == Split(Split(text, "₹")[2], " ")[1]
            tail == Split(text, "Change: ")[2]
            pct == SubSeq(tail, 1, Len(tail) - 1)
        IN  /\ Len(Split(text, "₹")) = 2
            /\ Len(Split(text, "Change: ")) = 2
            /\ CharAt(tail, Len(tail)) = "%"
            /\ ParseFixed2(price) = last
            /\ Len(Split(pct, ".")) = 2 /\ Len(Split(pct, ".")[2]) = 2
            /\ 2 * Abs(ParseFixed2(pct) * first - (last - first) * 10000) <= Abs(first)
            /\ hist.closes = ScenarioCloses =>
                  text = "Price: ₹103.00 | 5-Day Change: 3.00%"

C7_Witness ==
    /\ pc = "s2"
    /\ hist = Rows(ScenarioCloses)
    /\ state["price_data"] = "Price: ₹103.00 | 5-Day Change: 3.00%"

\* C8: the recommendation "**DISCHARGE** due to heatwave" is shown in the
\* colour of the DISCHARGE category.
C8_DischargeIsRed ==
    pc = "Reported" /\ state["final_recommendation"] = "**DISCHARGE** due to heatwave" =>
        report.color = "red"

\* k occurs in s, letter case aside
Occurs(k, s) ==
    \E i \in 1..(Len(s) - Len(k) + 1) :
        \A j \in 1..Len(k) : UpChar(CharAt(s, i + j - 1)) = CharAt(k, j)

\* C9: the colour is that of the first category, in the order CHARGE (CHARGE
\* or BUY), DISCHARGE (DISCHARGE or SELL), default, with a keyword anywhere in
\* the text, letter case aside; a text with both CHARGE and DISCHARGE in it is
\* CHARGE.
C9_FirstMatchWins ==
    pc = "Reported" =>
        LET rec == state["final_recommendation"]
        IN  /\ Occurs("CHARGE", rec) \/ Occurs("BUY", rec) => report.color = "green"
            /\ ~Occurs("CHARGE", rec) /\ ~Occurs("BUY", rec)
                  /\ (Occurs("DISCHARGE", rec) \/ Occurs("SELL", rec)) => report.color = "red"
            /\ ~Occurs("CHARGE", rec) /\ ~Occurs("BUY", rec)
                  /\ ~Occurs("DISCHARGE", rec) /\ ~Occurs("SELL", rec) => report.color = "orange"

C9_Witness ==
    /\ pc = "Reported"
    /\ Occurs("DISCHARGE", state["final_recommendation"])
    /\ Occurs("SELL", state["final_recommendation"])
    /\ report.color = "green"

\* the field a step may add
AddedAt(p) ==
    CASE p = "run" -> InputKeys
      [] p = "s1_compute" -> {"price_data"}
      [] p = "s2_wait" -> {"news_summary"}
      [] p = "s3_wait" -> {"final_recommendation"}
      [] OTHER -> {}

\* C10: a step leaves every field already in the record as it is, removes
\* none, and adds at most its own field.
C10_StagesOnlyAdd ==
    [][/\ \A k \in DOMAIN state : k \in DOMAIN state' /\ state'[k] = state[k]
       /\ (DOMAIN state' \ DOMAIN state) \subseteq AddedAt(pc)]_vars

C10_Witness ==
    /\ pc = "Done"
    /\ DOMAIN state = AllKeys
    /\ state["company_symbol"] = ticker_symbol
    /\ state["company_name"] = company_name

====
